---- MODULE Spec2Model ----
\* A model of the derivative pricer: the geometric Brownian motion stock
\* (stock.rs), the vanilla and Asian options (option.rs), the random number
\* generators (random_number_generator.rs), the mean statistics gatherer
\* (statistics_gatherer.rs) and the Monte Carlo driver (monte_carlo_pricer.rs).
\* The stock's path generators and evolve, and NonNegativeFloat (utils.rs),
\* are also exercised on their own: SpecPath, SpecEvolve, SpecFloat; so are
\* the gatherer (SpecGatherer) and the closed formulas of raw_formulas.rs and
\* formulas.rs (SpecFormulas).
\*
\* Arithmetic.  f64 values are carried as fixed-point integers with Unit steps
\* per 1.0 (prices, payoffs, discount factors, results); time stamps, rates,
\* volatilities and gaussian samples are whole numbers.  The exponential is
\* taken to base 2 (rates are per ln 2), products of two fixed-point values are
\* rescaled by Unit and round towards minus infinity.  The comparison operators
\* the code uses on TimeStamp (<, >, ==, !=) are the exact ones of f64
\* (utils.rs 87-97), so they are the integer comparisons here.
EXTENDS Integers, Sequences, FiniteSets, TLC

\* ---------------------------------------------------------------- bounds
\* Largest time stamp of the model (clock values are 0..MaxTime).
MaxTime == 2
\* Largest number_of_paths handed to monte_carlo_simulation.
MaxPaths == 2
\* Longest monitoring schedule of an Asian option.
MaxMon == 2
\* Fixed-point resolution: Unit steps per 1.0.
Unit == 4
\* Largest dimensionality / sample count asked of a random number generator.
MaxDim == 3

VARIABLES
    stock,      \* GeometricBrownianMotionStock: price, current_time, drift, volatility, divident_rate
    option,     \* the option: kind, expiry, monitoring_times, payoff, params
    history,    \* AsianOption.history (for a vanilla option: unused, <<>>)
    created,    \* the underlying's state when the option was constructed
    rng,        \* the stateful sampler handed to monte_carlo_simulation
    gatherer,   \* MeanStatisticsGatherer: running_sum, paths_done
    pc,         \* position of monte_carlo_simulation: idle, running, done, failed
    sim,        \* the running call: r, number_of_paths, tau, discount_factor, and its entry snapshot
    log,        \* one record per finished trial of the running call
    err,        \* the panic message of the last failed call, "" when none
    lastOp,     \* the operation that produced this state
    gens,       \* a pair of fixed-dimensionality RandomNumberGenerators
    outs,       \* what each of them returned last, and the time before
    call        \* the call under way or just finished on the stock or on a float: arguments, position, result

vars == <<stock, option, history, created, rng, gatherer, pc, sim, log, err, lastOp, gens, outs, call>>

\* ------------------------------------------------------- values and panics
None == [some |-> FALSE]
Some(x) == [some |-> TRUE, val |-> x]

Ok(v) == [ok |-> TRUE, val |-> v]
Panic(msg) == [ok |-> FALSE, err |-> msg]

Max(a, b) == IF a >= b THEN a ELSE b

RECURSIVE Pow2(_)
Pow2(n) == IF n <= 0 THEN 1 ELSE 2 * Pow2(n - 1)

\* f64::exp, to base 2, in fixed point.
Exp(e) == IF e >= 0 THEN Unit * Pow2(e) ELSE Unit \div Pow2(-e)

\* The product of two fixed-point values.
Mul(a, b) == (a * b) \div Unit

\* f64::sqrt on a whole number of time units, rounded down.
RECURSIVE SqrtFrom(_, _)
SqrtFrom(x, k) == IF (k + 1) * (k + 1) > x THEN k ELSE SqrtFrom(x, k + 1)
Sqrt(x) == SqrtFrom(x, 0)

\* ------------------------------------------------------------------ stock
StockState(value, time) == [value |-> value, time |-> time]

get_current_state(s) == StockState(s.price, s.current_time)

\* A variant of evolve whose noise term is not scaled by the volatility.
evolve_unscaled_noise(s, gaussian_sample, time_step) ==
    LET root_of_time == Sqrt(time_step)
        half_sigma_squared == (s.volatility * s.volatility) \div 2
        exponent == (s.drift - s.divident_rate - half_sigma_squared) * time_step
                    + gaussian_sample * root_of_time
        moved_spot == Mul(s.price, Exp(exponent))
    IN  [s EXCEPT !.price = moved_spot, !.current_time = s.current_time + time_step]

\* GeometricBrownianMotionStock::evolve
evolve(s, gaussian_sample, time_step) ==
    LET root_of_time == Sqrt(time_step)
        half_sigma_squared == (s.volatility * s.volatility) \div 2
        exponent == (s.drift - s.divident_rate - half_sigma_squared) * time_step
                    + gaussian_sample * root_of_time * s.volatility
        moved_spot == Mul(s.price, Exp(exponent))
    IN  [s EXCEPT !.price = moved_spot, !.current_time = s.current_time + time_step]

\* The for loop of generate_risk_neutral_path_from_time_stamps, from index i on:
\* ct and cv carry time and price from step to step, ans is the path so far.
RECURSIVE RiskNeutralLoop(_, _, _, _, _, _, _, _)
RiskNeutralLoop(s, gaussians, time_stamps, r, i, ct, cv, ans) ==
    IF i > Len(time_stamps) THEN Ok(ans)
    ELSE LET ts == time_stamps[i]
             new_current_time == ts
         IN  IF new_current_time - ct < 0 THEN Panic("Invalid time_stamp vector")
             ELSE LET time_step == new_current_time - ct
                      root_of_time == Sqrt(time_step)
                      half_sigma_squared == (s.volatility * s.volatility) \div 2
                      exponent == Exp((r - s.divident_rate - half_sigma_squared) * time_step
                                      + gaussians[i] * root_of_time * s.volatility)
                  IN  RiskNeutralLoop(s, gaussians, time_stamps, r, i + 1, new_current_time,
                                      Mul(cv, exponent),
                                      Append(ans, StockState(Mul(cv, exponent), ts)))

\* A variant of generate_risk_neutral_path_from_time_stamps that ignores r and
\* lets the price drift at rate 0.
generate_risk_neutral_path_ignoring_r(s, gaussians, time_stamps, r) ==
    IF Len(gaussians) < Len(time_stamps) THEN Panic("Not enough Gaussian samples.")
    ELSE IF Len(time_stamps) = 0 \/ time_stamps[1] < s.current_time
         THEN Panic("Invalid time_stamp vector.")
         ELSE RiskNeutralLoop(s, gaussians, time_stamps, 0, 1, s.current_time, s.price, <<>>)

\* GeometricBrownianMotionStock::generate_risk_neutral_path_from_time_stamps
generate_risk_neutral_path_from_time_stamps(s, gaussians, time_stamps, r) ==
    IF Len(gaussians) < Len(time_stamps) THEN Panic("Not enough Gaussian samples.")
    ELSE IF Len(time_stamps) = 0 \/ time_stamps[1] < s.current_time
         THEN Panic("Invalid time_stamp vector.")
         ELSE RiskNeutralLoop(s, gaussians, time_stamps, r, 1, s.current_time, s.price, <<>>)

\* A variant of the for loop of generate_path_from_time_stamps that stamps each
\* state with the time the step started from instead of the time it reached.
RECURSIVE PathLoopStaleTime(_, _, _, _, _, _, _)
PathLoopStaleTime(s, gaussians, time_stamps, i, ct, cv, ans) ==
    IF i > Len(time_stamps) THEN Ok(ans)
    ELSE LET ts == time_stamps[i]
             new_current_time == ts
         IN  IF new_current_time - ct < 0 THEN Panic("Invalid time_stamp vector")
             ELSE LET time_step == new_current_time - ct
                      root_of_time == Sqrt(time_step)
                      half_sigma_squared == (s.volatility * s.volatility) \div 2
                      exponent == Exp((s.drift - s.divident_rate - half_sigma_squared) * time_step
                                      + gaussians[i] * root_of_time * s.volatility)
                  IN  PathLoopStaleTime(s, gaussians, time_stamps, i + 1, new_current_time,
                                        Mul(cv, exponent),
                                        Append(ans, StockState(Mul(cv, exponent), ct)))

\* A variant of the for loop of generate_path_from_time_stamps that does not
\* carry the price forward: every step starts from the price the call began
\* with.
RECURSIVE PathLoopFromStartPrice(_, _, _, _, _, _, _)
PathLoopFromStartPrice(s, gaussians, time_stamps, i, ct, cv, ans) ==
    IF i > Len(time_stamps) THEN Ok(ans)
    ELSE LET ts == time_stamps[i]
             new_current_time == ts
         IN  IF new_current_time - ct < 0 THEN Panic("Invalid time_stamp vector")
             ELSE LET time_step == new_current_time - ct
                      root_of_time == Sqrt(time_step)
                      half_sigma_squared == (s.volatility * s.volatility) \div 2
                      exponent == Exp((s.drift - s.divident_rate - half_sigma_squared) * time_step
                                      + gaussians[i] * root_of_time * s.volatility)
                  IN  PathLoopFromStartPrice(s, gaussians, time_stamps, i + 1, new_current_time,
                                             cv,
                                             Append(ans, StockState(Mul(cv, exponent), ts)))

\* The for loop of generate_path_from_time_stamps, from index i on: the same
\* loop as the risk neutral one, with the stock's own drift.
RECURSIVE PathLoop(_, _, _, _, _, _, _)
PathLoop(s, gaussians, time_stamps, i, ct, cv, ans) ==
    IF i > Len(time_stamps) THEN Ok(ans)
    ELSE LET ts == time_stamps[i]
             new_current_time == ts
         IN  IF new_current_time - ct < 0 THEN Panic("Invalid time_stamp vector")
             ELSE LET time_step == new_current_time - ct
                      root_of_time == Sqrt(time_step)
                      half_sigma_squared == (s.volatility * s.volatility) \div 2
                      exponent == Exp((s.drift - s.divident_rate - half_sigma_squared) * time_step
                                      + gaussians[i] * root_of_time * s.volatility)
                  IN  PathLoop(s, gaussians, time_stamps, i + 1, new_current_time,
                               Mul(cv, exponent),
                               Append(ans, StockState(Mul(cv, exponent), ts)))

\* A variant of generate_path_from_time_stamps without the check for an empty
\* time stamp vector.
generate_path_allow_empty(s, gaussians, time_stamps) ==
    IF Len(gaussians) < Len(time_stamps) THEN Panic("Not enough Gaussian samples.")
    ELSE IF Len(time_stamps) # 0 /\ time_stamps[1] < s.current_time
         THEN Panic("Invalid time_stamp vector.")
         ELSE PathLoop(s, gaussians, time_stamps, 1, s.current_time, s.price, <<>>)

\* GeometricBrownianMotionStock::generate_path_from_time_stamps
generate_path_from_time_stamps(s, gaussians, time_stamps) ==
    IF Len(gaussians) < Len(time_stamps) THEN Panic("Not enough Gaussian samples.")
    ELSE IF Len(time_stamps) = 0 \/ time_stamps[1] < s.current_time
         THEN Panic("Invalid time_stamp vector.")
         ELSE PathLoop(s, gaussians, time_stamps, 1, s.current_time, s.price, <<>>)

\* The entry check of generate_path_from_steps and of
\* generate_risk_neutral_path_from_steps: TRUE when the call panics with
\* "Invalid time_stamp inputs".
StepsInputsInvalid(s, begin, end) == begin < s.current_time \/ end < begin

\* A variant of the while condition of the step generators that also runs the
\* body at end itself.
StepsLoopCondUpToEnd(ct, end) == ct <= end

\* The while condition of the step generators: while ct < end.
StepsLoopCond(ct, end) == ct < end

\* The tail of the step generators: push end when inclusive, then hand the
\* time stamps to the time stamp generator of the same kind.
StepsFinishCall(s, kind, gaussians, r, time_stamps, end, inclusive) ==
    LET stamps == IF inclusive THEN Append(time_stamps, end) ELSE time_stamps
    IN  IF kind = "risk_neutral"
        THEN generate_risk_neutral_path_from_time_stamps(s, gaussians, stamps, r)
        ELSE generate_path_from_time_stamps(s, gaussians, stamps)

\* ---------------------------------------------------------------- options
\* The payoff closures of the tests: a call max(x - params[0], 0) and a put
\* max(params[0] - x, 0).  f64::max ignores a NaN argument, so a NaN average
\* pays 0.
payoff_function(o, x) ==
    IF x.nan THEN 0
    ELSE IF o.payoff = "call" THEN Max(x.val - o.params[1], 0)
         ELSE Max(o.params[1] - x.val, 0)

Float(v) == [nan |-> FALSE, val |-> v]
NaN == [nan |-> TRUE, val |-> 0]

\* A variant of VanillaStockOption::get_time_to_expiry that also reports an
\* option at its expiry as expired (x <= 0.0 for x < 0.0).
VanillaTimeToExpiryAtExpiry(o, s) ==
    LET x == o.expiry - get_current_state(s).time
    IN  IF x <= 0 THEN None ELSE Some(x)

\* VanillaStockOption::get_time_to_expiry
VanillaTimeToExpiry(o, s) ==
    LET x == o.expiry - get_current_state(s).time
    IN  IF x < 0 THEN None ELSE Some(x)

\* AsianOption::get_time_to_expiry
AsianTimeToExpiry(o, s) ==
    LET x == o.expiry - get_current_state(s).time
    IN  IF x < 0 THEN None ELSE Some(x)

\* DerivativeOption::get_time_to_expiry, dispatched on the option's type.
get_time_to_expiry(o, s) ==
    IF o.kind = "vanilla" THEN VanillaTimeToExpiry(o, s) ELSE AsianTimeToExpiry(o, s)

\* The while loop of AsianOption::get_dimensionality; i counts the monitoring
\* times skipped so far.
RECURSIVE DimensionalityLoop(_, _, _)
DimensionalityLoop(monitoring_times, current_time, i) ==
    IF i < Len(monitoring_times) /\ monitoring_times[i + 1] < current_time
    THEN DimensionalityLoop(monitoring_times, current_time, i + 1)
    ELSE i

\* AsianOption::get_dimensionality
AsianDimensionality(o, s) ==
    LET current_time == get_current_state(s).time
    IN  Len(o.monitoring_times) - DimensionalityLoop(o.monitoring_times, current_time, 0)

\* DerivativeOption::get_dimensionality (a vanilla option: always 1).
get_dimensionality(o, s) ==
    IF o.kind = "vanilla" THEN 1 ELSE AsianDimensionality(o, s)

\* A variant of AsianOption::update without the time stamp test.
AsianUpdateAlways(hist, s) == Append(hist, get_current_state(s))

\* A variant of AsianOption::update that tests the first recorded state
\* instead of the last one.
AsianUpdateFirst(hist, s) ==
    IF hist[1].time = get_current_state(s).time THEN hist
    ELSE Append(hist, get_current_state(s))

\* AsianOption::update: the history after the call.
AsianUpdate(hist, s) ==
    IF hist[Len(hist)].time = get_current_state(s).time THEN hist
    ELSE Append(hist, get_current_state(s))

\* The average closure of asian_call_test1 / asian_put_test1: j is the index
\* (from 0) of the state the scan has reached, k the monitoring time in turn.
RECURSIVE SkipEarlier(_, _, _)
SkipEarlier(states, j, t) ==
    IF j < Len(states) /\ states[j + 1].time < t THEN SkipEarlier(states, j + 1, t) ELSE j

RECURSIVE AverageLoop(_, _, _, _, _)
AverageLoop(states, monitoring_times, k, j, sum) ==
    IF k > Len(monitoring_times) THEN Ok([sum |-> sum, j |-> j])
    ELSE LET t == monitoring_times[k]
             j2 == SkipEarlier(states, j, t)
         IN  IF j2 >= Len(states) THEN Panic("index out of bounds")
             ELSE IF states[j2 + 1].time = t
                  THEN AverageLoop(states, monitoring_times, k + 1, j2, sum + states[j2 + 1].value)
                  ELSE IF j2 = 0 THEN Panic("index out of bounds")
                       ELSE LET tj == states[j2 + 1].time
                                tp == states[j2].time
                                a == ((tj - t) * Unit) \div (tj - tp)
                            IN  AverageLoop(states, monitoring_times, k + 1, j2,
                                            sum + Mul(a, states[j2].value)
                                                + Mul(Unit - a, states[j2 + 1].value))

average_function(states, monitoring_times) ==
    LET res == AverageLoop(states, monitoring_times, 1, 0, 0)
    IN  IF ~res.ok THEN res
        ELSE IF Len(monitoring_times) = 0 THEN Ok(NaN)
             ELSE Ok(Float(res.val.sum \div Len(monitoring_times)))

\* A variant of VanillaStockOption::price_path that generates the state at
\* expiry with the stock's own drift instead of the risk free rate.
VanillaPricePathRealWorld(o, s, hist, random_samples, r) ==
    IF Len(random_samples) < 1
    THEN [ok |-> FALSE, err |-> "Incorrect length of random_samples", history |-> hist]
    ELSE IF o.expiry < get_current_state(s).time
         THEN [ok |-> FALSE, err |-> "The option expiered!", history |-> hist]
         ELSE LET time_stamps == <<o.expiry>>
                  state == generate_path_from_time_stamps(s, random_samples, time_stamps)
              IN  IF ~state.ok THEN [ok |-> FALSE, err |-> state.err, history |-> hist]
                  ELSE [ok |-> TRUE, val |-> payoff_function(o, Float(state.val[1].value)),
                        history |-> hist]

\* VanillaStockOption::price_path.  The result carries the payoff (or the
\* panic) and the option's history after the call.
VanillaPricePath(o, s, hist, random_samples, r) ==
    IF Len(random_samples) < 1
    THEN [ok |-> FALSE, err |-> "Incorrect length of random_samples", history |-> hist]
    ELSE IF o.expiry < get_current_state(s).time
         THEN [ok |-> FALSE, err |-> "The option expiered!", history |-> hist]
         ELSE LET time_stamps == <<o.expiry>>
                  state == generate_risk_neutral_path_from_time_stamps(s, random_samples, time_stamps, r)
              IN  IF ~state.ok THEN [ok |-> FALSE, err |-> state.err, history |-> hist]
                  ELSE [ok |-> TRUE, val |-> payoff_function(o, Float(state.val[1].value)),
                        history |-> hist]

\* AsianOption::price_path up to the call of the average function: the states
\* handed to it, or the panic of the path generator.
AsianAverageStates(o, s, hist, random_samples, r) ==
    LET cloned == IF get_current_state(s).time # hist[Len(hist)].time
                  THEN Append(hist, get_current_state(s)) ELSE hist
        t0 == cloned[Len(cloned)].time
        time_stamps == SelectSeq(o.monitoring_times, LAMBDA t : t > t0)
        v == generate_risk_neutral_path_from_time_stamps(s, random_samples, time_stamps, r)
    IN  IF ~v.ok THEN v ELSE Ok(cloned \o v.val)

\* A variant of AsianOption::price_path that works on self.history itself
\* instead of a clone of it.
AsianPricePathInPlace(o, s, hist, random_samples, r) ==
    LET cloned == IF get_current_state(s).time # hist[Len(hist)].time
                  THEN Append(hist, get_current_state(s)) ELSE hist
        t0 == cloned[Len(cloned)].time
        time_stamps == SelectSeq(o.monitoring_times, LAMBDA t : t > t0)
        v == generate_risk_neutral_path_from_time_stamps(s, random_samples, time_stamps, r)
    IN  IF ~v.ok THEN [ok |-> FALSE, err |-> v.err, history |-> cloned]
        ELSE LET avg == average_function(cloned \o v.val, o.monitoring_times)
             IN  IF ~avg.ok THEN [ok |-> FALSE, err |-> avg.err, history |-> cloned \o v.val]
                 ELSE [ok |-> TRUE, val |-> payoff_function(o, avg.val),
                       history |-> cloned \o v.val]

\* AsianOption::price_path.  It works on a clone of self.history; the field
\* history of the result is self.history after the call.
AsianPricePath(o, s, hist, random_samples, r) ==
    LET cloned == IF get_current_state(s).time # hist[Len(hist)].time
                  THEN Append(hist, get_current_state(s)) ELSE hist
        t0 == cloned[Len(cloned)].time
        time_stamps == SelectSeq(o.monitoring_times, LAMBDA t : t > t0)
        v == generate_risk_neutral_path_from_time_stamps(s, random_samples, time_stamps, r)
    IN  IF ~v.ok THEN [ok |-> FALSE, err |-> v.err, history |-> hist]
        ELSE LET avg == average_function(cloned \o v.val, o.monitoring_times)
             IN  IF ~avg.ok THEN [ok |-> FALSE, err |-> avg.err, history |-> hist]
                 ELSE [ok |-> TRUE, val |-> payoff_function(o, avg.val), history |-> hist]

\* A variant of price_path in which an Asian option first records the current
\* state of the underlying in its own history, as update does.
price_path_updating(o, s, hist, random_samples, r) ==
    IF o.kind = "vanilla" THEN VanillaPricePath(o, s, hist, random_samples, r)
    ELSE [AsianPricePath(o, s, hist, random_samples, r) EXCEPT !.history = AsianUpdate(hist, s)]

\* DerivativeOption::price_path, dispatched on the option's type.
price_path(o, s, hist, random_samples, r) ==
    IF o.kind = "vanilla" THEN VanillaPricePath(o, s, hist, random_samples, r)
    ELSE AsianPricePath(o, s, hist, random_samples, r)

\* ------------------------------------------------- random number generators
\* Seeds a caller passes as Some(seed), and the values the thread-local
\* entropy source may hand out when the seed is None.
SeedValues == {1, 6}
EntropyValues == {2, 5}
Seeds == {None} \cup {Some(x) : x \in SeedValues}
\* The seeds monte_carlo_pricer is called with in the driver's machine.
DriverSeeds == {None, Some(1)}

\* StdRng: a generator state and its successor (a full-period congruential
\* generator on 0..7 stands for the ChaCha stream); the value drawn is the
\* successor state.
seed_from_u64(x) == x % 8
StdRngNext(state) == (5 * state + 3) % 8

\* n successive draws from a generator in state `state`, and the state after.
RECURSIVE Draws(_, _)
Draws(state, n) ==
    IF n <= 0 THEN <<>> ELSE <<StdRngNext(state)>> \o Draws(StdRngNext(state), n - 1)

RECURSIVE Advance(_, _)
Advance(state, n) == IF n <= 0 THEN state ELSE Advance(StdRngNext(state), n - 1)

\* A uniform draw mapped to a standard gaussian sample: monotone, centred.
inverse_cumulative_normal_function(u) == (u \div 3) - 1
normal_sample(u) == (u \div 3) - 1

Gaussians == {-1, 0, 1}

\* The gaussian samples of a sequence of uniform draws.
InverseCdfSeq(seq) == [i \in 1..Len(seq) |-> inverse_cumulative_normal_function(seq[i])]
NormalSeq(seq) == [i \in 1..Len(seq) |-> normal_sample(seq[i])]

\* The stateful sampler monte_carlo_pricer builds with
\* RandomNumberGenerator::new(seed) and monte_carlo_simulation draws from with
\* rng.get_gaussians(n): it keeps the generator state between calls.  pos
\* counts the values drawn since construction.
stream_new(seed, entropy) ==
    [seed |-> seed,
     state |-> seed_from_u64(IF seed.some THEN seed.val ELSE entropy),
     pos |-> 0]

\* A variant of the stateful sampler that does not keep the generator state
\* between calls: every call starts from the state at construction.
stream_get_gaussians_restart(g, n) ==
    [rng |-> [g EXCEPT !.pos = g.pos + n],
     samples |-> InverseCdfSeq(Draws(g.state, n)),
     from |-> g.pos]

stream_get_gaussians(g, n) ==
    [rng |-> [g EXCEPT !.state = Advance(g.state, n), !.pos = g.pos + n],
     samples |-> InverseCdfSeq(Draws(g.state, n)),
     from |-> g.pos]

\* The sampler call of one trial of monte_carlo_simulation:
\* rng.get_gaussians(option.get_dimensionality()) on the driver's &mut rng.
\* A variant that draws from a copy of the sampler, whose state is then lost.
DrawBatchFromCopy(g, n) == [stream_get_gaussians(g, n) EXCEPT !.rng = g]

DrawBatch(g, n) == stream_get_gaussians(g, n)

\* RandomNumberGenerator::new(seed, dimensionality) of random_number_generator.rs
RandomNumberGenerator_new(seed, dimensionality) ==
    [seed |-> seed, dimensionality |-> dimensionality]

\* RandomNumberGenerator::get_uniforms; entropy is what rand::thread_rng().gen()
\* returns in this call.
get_uniforms(g, entropy) ==
    LET r == IF g.seed.some THEN seed_from_u64(g.seed.val) ELSE seed_from_u64(entropy)
    IN  Draws(r, g.dimensionality)

\* A variant of RandomNumberGenerator::get_gaussians that seeds from the
\* entropy source whatever the configured seed.
get_gaussians_unseeded(g, entropy) ==
    NormalSeq(Draws(seed_from_u64(entropy), g.dimensionality))

\* RandomNumberGenerator::get_gaussians
get_gaussians(g, entropy) ==
    LET r == IF g.seed.some THEN seed_from_u64(g.seed.val) ELSE seed_from_u64(entropy)
    IN  NormalSeq(Draws(r, g.dimensionality))

\* ------------------------------------------------------ statistics gatherer
\* MeanStatisticsGatherer::new
MeanStatisticsGatherer_new == [running_sum |-> 0, paths_done |-> 0]


\* A variant of dump_one_result that keeps the last result instead of the sum.
dump_one_result_overwrite(g, result) ==
    [running_sum |-> result, paths_done |-> g.paths_done + 1]

\* MeanStatisticsGatherer::dump_one_result
dump_one_result(g, result) ==
    [running_sum |-> g.running_sum + result, paths_done |-> g.paths_done + 1]

\* get_results_so_far: running_sum / paths_done in a 1 x 1 vector.  With
\* paths_done = 0 the running sum is 0.0 and 0.0 / 0.0 is NaN.
get_results_so_far(g) ==
    <<<<IF g.paths_done = 0 THEN NaN ELSE Float(g.running_sum \div g.paths_done)>>>>

\* ------------------------------------------------------------ the machine
Rates == {0, 1}

\* Strictly increasing, non-empty sequences over 0..MaxTime of length at most
\* MaxMon: the schedules AsianOption::new is documented to take ("sorted with
\* unique values").
Schedules ==
    {sq \in UNION {[1..n -> 0..MaxTime] : n \in 1..MaxMon} :
        \A i \in 1..(Len(sq) - 1) : sq[i] < sq[i + 1]}

NoSim == [r |-> 0, number_of_paths |-> 0, i |-> 0, tau |-> None, discount_factor |-> 0]

\* No call on the stock or on a float is under way.
NoCall == [op |-> "none", at |-> "idle"]

\* No sampler: the driver has not been handed one yet.
NoRng == [seed |-> None, state |-> 0, pos |-> 0]

\* The state after construction: a stock and an option on it (AsianOption::new
\* records the stock's current state as its history).  No simulation runs.
Init ==
    /\ stock \in [price : {2 * Unit}, current_time : 0..1, drift : {1},
                  volatility : {0, 2}, divident_rate : {0}]
    /\ option \in [kind : {"vanilla"}, expiry : 0..MaxTime, monitoring_times : {<<>>},
                   payoff : {"call", "put"}, params : {<<Unit>>}]
              \cup [kind : {"asian"}, expiry : 0..MaxTime, monitoring_times : Schedules,
                    payoff : {"call"}, params : {<<Unit>>}]
    /\ history = IF option.kind = "asian" THEN <<get_current_state(stock)>> ELSE <<>>
    /\ created = get_current_state(stock)
    /\ rng = NoRng
    /\ gatherer = MeanStatisticsGatherer_new
    /\ pc = "idle"
    /\ sim = NoSim
    /\ log = <<>>
    /\ err = ""
    /\ lastOp = "init"
    /\ gens = <<>>
    /\ outs = <<>>
    /\ call = NoCall

\* The owner of the underlying advances it by one evolve call.  The options
\* hold the stock through an Rc without interior mutability, so safe callers
\* cannot evolve a stock an option already shares; the step stands for the
\* mutable underlying of the design, and the behaviours without it are the
\* ones of the code as written.
Evolve ==
    /\ pc = "idle"
    /\ \E z \in Gaussians, time_step \in 0..MaxTime :
        /\ stock.current_time + time_step <= MaxTime
        /\ stock' = evolve(stock, z, time_step)
    /\ lastOp' = "evolve"
    /\ err' = ""
    /\ UNCHANGED <<option, history, created, rng, gatherer, pc, sim, log, gens, outs, call>>

\* AsianOption::update
Update ==
    /\ pc = "idle"
    /\ option.kind = "asian"
    /\ history' = AsianUpdate(history, stock)
    /\ lastOp' = "update"
    /\ err' = ""
    /\ UNCHANGED <<stock, option, created, rng, gatherer, pc, sim, log, gens, outs, call>>

\* A caller prices one path directly: price_path(random_samples, r).
SampleVectors == UNION {[1..n -> Gaussians] : n \in 0..MaxMon}

PricePath ==
    /\ pc = "idle"
    /\ \E random_samples \in SampleVectors, r \in Rates :
        LET res == price_path(option, stock, history, random_samples, r)
        IN  /\ history' = res.history
            /\ err' = IF res.ok THEN "" ELSE res.err
    /\ lastOp' = "price_path"
    /\ UNCHANGED <<stock, option, created, rng, gatherer, pc, sim, log, gens, outs, call>>

\* A variant of the entry of monte_carlo_simulation without the expiry check:
\* an absent time to expiry counts as 0.
McStartUnchecked ==
    /\ pc = "idle"
    /\ \E seed \in DriverSeeds, entropy \in EntropyValues : rng' = stream_new(seed, entropy)
    /\ gatherer' = MeanStatisticsGatherer_new
    /\ \E r \in Rates, number_of_paths \in 0..MaxPaths :
        LET tau == get_time_to_expiry(option, stock)
            t == IF tau.some THEN tau ELSE Some(0)
        IN  /\ pc' = "running"
            /\ err' = ""
            /\ sim' = [r |-> r, number_of_paths |-> number_of_paths, i |-> 0,
                       tau |-> t, discount_factor |-> Exp(-r * t.val)]
    /\ log' = <<>>
    /\ lastOp' = "mc_start"
    /\ UNCHANGED <<stock, option, history, created, gens, outs, call>>

\* monte_carlo_pricer builds the gatherer and the sampler and calls
\* monte_carlo_simulation, whose entry checks the expiry and computes the
\* discount factor.
McStart ==
    /\ pc = "idle"
    /\ \E seed \in DriverSeeds, entropy \in EntropyValues : rng' = stream_new(seed, entropy)
    /\ gatherer' = MeanStatisticsGatherer_new
    /\ \E r \in Rates, number_of_paths \in 0..MaxPaths :
        LET tau == get_time_to_expiry(option, stock)
        IN  IF ~tau.some
            THEN /\ pc' = "failed"
                 /\ err' = "The option expiered!"
                 /\ sim' = [NoSim EXCEPT !.r = r, !.number_of_paths = number_of_paths]
            ELSE /\ pc' = "running"
                 /\ err' = ""
                 /\ sim' = [r |-> r, number_of_paths |-> number_of_paths, i |-> 0,
                            tau |-> tau, discount_factor |-> Exp(-r * tau.val)]
    /\ log' = <<>>
    /\ lastOp' = "mc_start"
    /\ UNCHANGED <<stock, option, history, created, gens, outs, call>>

\* monte_carlo_simulation, one iteration of the for loop.
McTrial ==
    /\ pc = "running"
    /\ sim.i < sim.number_of_paths
    /\ LET draw == DrawBatch(rng, get_dimensionality(option, stock))
           res == price_path(option, stock, history, draw.samples, sim.r)
       IN  /\ rng' = draw.rng
           /\ history' = res.history
           /\ IF res.ok
              THEN /\ gatherer' = dump_one_result(gatherer, Mul(sim.discount_factor, res.val))
                   /\ log' = Append(log, [from |-> draw.from, samples |-> draw.samples,
                                          payoff |-> res.val,
                                          result |-> Mul(sim.discount_factor, res.val)])
                   /\ sim' = [sim EXCEPT !.i = sim.i + 1]
                   /\ UNCHANGED <<pc, err>>
              ELSE /\ pc' = "failed"
                   /\ err' = res.err
                   /\ UNCHANGED <<gatherer, log, sim>>
    /\ lastOp' = "mc_trial"
    /\ UNCHANGED <<stock, option, created, gens, outs, call>>

\* monte_carlo_simulation, the loop is over: return.
McReturn ==
    /\ pc = "running"
    /\ sim.i >= sim.number_of_paths
    /\ pc' = "done"
    /\ lastOp' = "mc_return"
    /\ UNCHANGED <<stock, option, history, created, rng, gatherer, sim, log, err, gens, outs, call>>

Next == Evolve \/ Update \/ PricePath \/ McStart \/ McTrial \/ McReturn

Spec == Init /\ [][Next]_vars

\* ------------------------------------------- the samplers on their own
\* Largest number of calls made on one sampler.
MaxCalls == 3

\* A stock and an option that stand by while a sampler is exercised.
IdleStock == [price |-> 2 * Unit, current_time |-> 0, drift |-> 1, volatility |-> 0,
              divident_rate |-> 0]
IdleOption == [kind |-> "vanilla", expiry |-> 1, monitoring_times |-> <<>>,
               payoff |-> "call", params |-> <<Unit>>]

InitRest ==
    /\ stock = IdleStock
    /\ option = IdleOption
    /\ history = <<>>
    /\ created = get_current_state(IdleStock)
    /\ gatherer = MeanStatisticsGatherer_new
    /\ pc = "idle"
    /\ sim = NoSim
    /\ err = ""
    /\ lastOp = "init"

\* The stateful sampler: built from a seed, then asked for n samples at a time.
InitStream ==
    /\ InitRest
    /\ \E seed \in Seeds, entropy \in EntropyValues : rng = stream_new(seed, entropy)
    /\ log = <<>>
    /\ gens = <<>>
    /\ outs = <<>>
    /\ call = NoCall

StreamGetGaussians ==
    /\ Len(log) < MaxCalls
    /\ \E n \in 0..MaxDim :
        LET draw == stream_get_gaussians(rng, n)
        IN  /\ rng' = draw.rng
            /\ log' = Append(log, [from |-> draw.from, samples |-> draw.samples])
    /\ lastOp' = "get_gaussians"
    /\ UNCHANGED <<stock, option, history, created, gatherer, pc, sim, err, gens, outs, call>>

NextStream == StreamGetGaussians

SpecStream == InitStream /\ [][NextStream]_vars

\* Two fixed-dimensionality generators, each queried again and again.  outs[k]
\* holds what generator k returned last (u, g), what it returned the time
\* before (pu, pg) and how often it was asked (nu, ng, counted up to 2).
NoOut == [u |-> <<>>, pu |-> <<>>, nu |-> 0, g |-> <<>>, pg |-> <<>>, ng |-> 0]

InitGen ==
    /\ InitRest
    /\ rng = NoRng
    /\ log = <<>>
    /\ gens \in [1..2 -> {RandomNumberGenerator_new(seed, d) : seed \in Seeds, d \in 0..MaxDim}]
    /\ outs = [k \in 1..2 |-> NoOut]
    /\ call = NoCall

GenGetUniforms ==
    /\ \E k \in 1..2, entropy \in EntropyValues :
        outs' = [outs EXCEPT ![k].u = get_uniforms(gens[k], entropy),
                             ![k].pu = outs[k].u,
                             ![k].nu = IF outs[k].nu < 2 THEN outs[k].nu + 1 ELSE 2]
    /\ lastOp' = "get_uniforms"
    /\ UNCHANGED <<stock, option, history, created, rng, gatherer, pc, sim, log, err, gens, call>>

GenGetGaussians ==
    /\ \E k \in 1..2, entropy \in EntropyValues :
        outs' = [outs EXCEPT ![k].g = get_gaussians(gens[k], entropy),
                             ![k].pg = outs[k].g,
                             ![k].ng = IF outs[k].ng < 2 THEN outs[k].ng + 1 ELSE 2]
    /\ lastOp' = "get_gaussians"
    /\ UNCHANGED <<stock, option, history, created, rng, gatherer, pc, sim, log, err, gens, call>>

NextGen == GenGetUniforms \/ GenGetGaussians

SpecGen == InitGen /\ [][NextGen]_vars

\* ------------------------------------- the stock's generators on their own
\* The gaussian vectors, time stamp vectors (sorted or not), stocks and vanilla
\* options the calls below are made with.
PathGaussians == {-1, 1}
GaussianVectors == UNION {[1..n -> PathGaussians] : n \in 0..MaxDim}
TimeStampVectors == UNION {[1..n -> 0..MaxTime] : n \in 0..MaxMon}
PathStocks == [price : {2 * Unit}, current_time : 0..1, drift : {0, 1},
               volatility : {0, 2}, divident_rate : {0}]
VanillaOptions == [kind : {"vanilla"}, expiry : 0..MaxTime, monitoring_times : {<<>>},
                   payoff : {"call", "put"}, params : {<<Unit>>}]

\* The model keeps the first MaxStamps time stamps a step generator pushes; a
\* call with step > 0 and end <= MaxTime pushes fewer.
MaxStamps == MaxTime + 2

\* The calls made: one of the time stamp generators (kind "real" for
\* generate_path_from_time_stamps, "risk_neutral" for
\* generate_risk_neutral_path_from_time_stamps), one of the step generators,
\* or price_path of a vanilla option.  at is the position of the call.
TimeStampsCalls ==
    {c \in [op : {"time_stamps"}, kind : {"real", "risk_neutral"}, gaussians : GaussianVectors,
            time_stamps : TimeStampVectors, r : Rates, at : {"called"}, res : {Ok(<<>>)}] :
        c.kind = "real" => c.r = 0}

StepsCalls ==
    {c \in [op : {"steps"}, kind : {"real", "risk_neutral"}, gaussians : GaussianVectors,
            r : Rates, begin : 0..MaxTime, step : 0..MaxTime, end : 0..MaxTime,
            inclusive : BOOLEAN, ct : {0}, time_stamps : {<<>>}, odd : {FALSE},
            at : {"called"}, res : {Ok(<<>>)}] :
        c.kind = "real" => c.r = 0}

PricePathCalls ==
    [op : {"price_path"}, option : VanillaOptions, random_samples : GaussianVectors,
     r : Rates, at : {"called"}, res : {Ok(<<>>)}]

\* A stock and one call about to be made on it.
InitPath ==
    /\ stock \in PathStocks
    /\ call \in TimeStampsCalls \cup StepsCalls \cup PricePathCalls
    /\ option = IF call.op = "price_path" THEN call.option ELSE IdleOption
    /\ history = <<>>
    /\ created = get_current_state(stock)
    /\ rng = NoRng
    /\ gatherer = MeanStatisticsGatherer_new
    /\ pc = "idle"
    /\ sim = NoSim
    /\ log = <<>>
    /\ err = ""
    /\ lastOp = "init"
    /\ gens = <<>>
    /\ outs = <<>>

\* generate_path_from_time_stamps / generate_risk_neutral_path_from_time_stamps.
\* Both take &self.
TimeStampsCall ==
    /\ call.op = "time_stamps"
    /\ call.at = "called"
    /\ LET res == IF call.kind = "risk_neutral"
                  THEN generate_risk_neutral_path_from_time_stamps(stock, call.gaussians,
                                                                   call.time_stamps, call.r)
                  ELSE generate_path_from_time_stamps(stock, call.gaussians, call.time_stamps)
       IN  call' = [call EXCEPT !.res = res, !.at = IF res.ok THEN "returned" ELSE "failed"]
    /\ lastOp' = "time_stamps"
    /\ UNCHANGED <<stock, option, history, created, rng, gatherer, pc, sim, log, err, gens, outs>>

\* generate_path_from_steps / generate_risk_neutral_path_from_steps, the entry:
\* the check of begin and end, then ct = begin and an empty time stamp vector.
StepsCall ==
    /\ call.op = "steps"
    /\ call.at = "called"
    /\ call' = IF StepsInputsInvalid(stock, call.begin, call.end)
               THEN [call EXCEPT !.at = "failed", !.res = Panic("Invalid time_stamp inputs")]
               ELSE [call EXCEPT !.at = "loop", !.ct = call.begin]
    /\ lastOp' = "steps"
    /\ UNCHANGED <<stock, option, history, created, rng, gatherer, pc, sim, log, err, gens, outs>>

\* One iteration of the while loop: push ct, ct += step.  odd is the parity of
\* the number of iterations made.
StepsLoop ==
    /\ call.op = "steps"
    /\ call.at = "loop"
    /\ StepsLoopCond(call.ct, call.end)
    /\ call' = [call EXCEPT !.time_stamps = IF Len(@) < MaxStamps THEN Append(@, call.ct) ELSE @,
                            !.ct = @ + call.step,
                            !.odd = ~@]
    /\ lastOp' = "steps_loop"
    /\ UNCHANGED <<stock, option, history, created, rng, gatherer, pc, sim, log, err, gens, outs>>

\* The loop is over: push end when inclusive and generate the path.
StepsFinish ==
    /\ call.op = "steps"
    /\ call.at = "loop"
    /\ ~StepsLoopCond(call.ct, call.end)
    /\ LET res == StepsFinishCall(stock, call.kind, call.gaussians, call.r,
                                  call.time_stamps, call.end, call.inclusive)
       IN  call' = [call EXCEPT !.res = res, !.at = IF res.ok THEN "returned" ELSE "failed"]
    /\ lastOp' = "steps_finish"
    /\ UNCHANGED <<stock, option, history, created, rng, gatherer, pc, sim, log, err, gens, outs>>

\* VanillaStockOption::price_path of the option on the stock.
VanillaPricePathCall ==
    /\ call.op = "price_path"
    /\ call.at = "called"
    /\ LET res == price_path(option, stock, history, call.random_samples, call.r)
       IN  /\ call' = [call EXCEPT !.res = res, !.at = IF res.ok THEN "returned" ELSE "failed"]
           /\ history' = res.history
    /\ lastOp' = "price_path"
    /\ UNCHANGED <<stock, option, created, rng, gatherer, pc, sim, log, err, gens, outs>>

NextPath == TimeStampsCall \/ StepsCall \/ StepsLoop \/ StepsFinish \/ VanillaPricePathCall

SpecPath == InitPath /\ [][NextPath]_vars

\* The caller runs on: a call under way takes its next step, and a call that
\* is over is followed by another.
SpecPathFair == SpecPath /\ WF_vars(NextPath)

\* ------------------------------------------------------ evolve on its own
EvolveStocks == [price : {2 * Unit, 3 * Unit}, current_time : 0..1, drift : {0, 1},
                 volatility : {0, 2}, divident_rate : {0, 1}]

\* A stock and one evolve call about to be made on it; created keeps the state
\* the stock had before the call.
InitEvolve ==
    /\ stock \in EvolveStocks
    /\ call \in [op : {"evolve"}, gaussian_sample : Gaussians, time_step : 0..MaxTime,
                 at : {"called"}]
    /\ option = IdleOption
    /\ history = <<>>
    /\ created = get_current_state(stock)
    /\ rng = NoRng
    /\ gatherer = MeanStatisticsGatherer_new
    /\ pc = "idle"
    /\ sim = NoSim
    /\ log = <<>>
    /\ err = ""
    /\ lastOp = "init"
    /\ gens = <<>>
    /\ outs = <<>>

\* stock.evolve(gaussian_sample, time_step), on &mut self.
EvolveCall ==
    /\ call.op = "evolve"
    /\ call.at = "called"
    /\ stock' = evolve(stock, call.gaussian_sample, call.time_step)
    /\ call' = [call EXCEPT !.at = "returned"]
    /\ lastOp' = "evolve"
    /\ UNCHANGED <<option, history, created, rng, gatherer, pc, sim, log, err, gens, outs>>

NextEvolve == EvolveCall

SpecEvolve == InitEvolve /\ [][NextEvolve]_vars

\* ---------------------------------------------- NonNegativeFloat on its own
\* The f64 values of this part are whole numbers of steps of half the
\* tolerance of Ord::cmp, and NaN: two different values one step apart differ
\* by less than the tolerance.
\* The tolerance 1e-10 of Ord::cmp, in those steps.
Epsilon == 2
\* Largest f64 value of this part.
MaxFloat == 9

F64Values == {Float(v) : v \in (-2)..MaxFloat} \cup {NaN}

\* The f64 operators <, == and -: a comparison with NaN is false, a
\* difference with NaN is NaN.
F64Lt(a, b) == ~a.nan /\ ~b.nan /\ a.val < b.val
F64Eq(a, b) == ~a.nan /\ ~b.nan /\ a.val = b.val
F64Sub(a, b) == IF a.nan \/ b.nan THEN NaN ELSE Float(a.val - b.val)
F64Abs(a) == IF a.nan THEN NaN ELSE Float(IF a.val < 0 THEN -a.val ELSE a.val)

\* The tuple struct NonNegativeFloat(f64), and f64::from(NonNegativeFloat).
NonNegativeFloat(v) == [inner |-> v]
F64From(x) == x.inner

\* NonNegativeFloat::from(f64): panics when value < 0.0.
NonNegativeFloatFrom(value) ==
    IF F64Lt(value, Float(0)) THEN Panic("Got a negative number.")
    ELSE Ok(NonNegativeFloat(value))

\* PartialOrd::partial_cmp: f64::partial_cmp, unwrapped.
partial_cmp(x, y) ==
    IF x.inner.nan \/ y.inner.nan THEN Panic("called Option::unwrap() on a None value")
    ELSE IF x.inner.val < y.inner.val THEN Ok("Less")
    ELSE IF x.inner.val = y.inner.val THEN Ok("Equal")
    ELSE Ok("Greater")

\* The operators < and > on NonNegativeFloat: PartialOrd's lt and gt, which
\* go through partial_cmp.
lt(x, y) ==
    LET c == partial_cmp(x, y) IN IF c.ok THEN Ok(c.val = "Less") ELSE c
gt(x, y) ==
    LET c == partial_cmp(x, y) IN IF c.ok THEN Ok(c.val = "Greater") ELSE c

\* PartialEq::eq, the operators == and !=.
eq(x, y) == Ok(F64Eq(x.inner, y.inner))

\* Ord::cmp
cmp(x, y) ==
    LET fx == F64From(x)
        fy == F64From(y)
    IN  IF F64Lt(F64Abs(F64Sub(fx, fy)), Float(Epsilon)) THEN Ok("Equal")
        ELSE IF F64Lt(fx, fy) THEN Ok("Less")
        ELSE IF ~F64Lt(fy, fx) THEN Panic("assertion failed: y < x")
        ELSE Ok("Greater")

\* The derived PartialOrd of StockState: the fields in declaration order,
\* value first, time when the values are equal.
StockStatePartialCmp(a, b) ==
    LET c == partial_cmp(a.value, b.value)
    IN  IF ~c.ok THEN c
        ELSE IF c.val # "Equal" THEN c
        ELSE partial_cmp(a.time, b.time)

\* The operators < and > on StockState, through the derived partial_cmp.
StockStateLt(a, b) ==
    LET c == StockStatePartialCmp(a, b) IN IF c.ok THEN Ok(c.val = "Less") ELSE c
StockStateGt(a, b) ==
    LET c == StockStatePartialCmp(a, b) IN IF c.ok THEN Ok(c.val = "Greater") ELSE c

\* Ord::cmp of StockState: self.time.cmp(&other.time).
StockStateCmp(a, b) == cmp(a.time, b.time)

\* The StockStates compared: value and time over a few non-negative values.
StateFloats == {NonNegativeFloat(Float(v)) : v \in 0..MaxTime}
StockStates == {StockState(v, t) : v \in StateFloats, t \in StateFloats}

\* The values NonNegativeFloat::from returns.
NonNegativeFloats == {NonNegativeFloatFrom(v).val : v \in {w \in F64Values : NonNegativeFloatFrom(w).ok}}

\* One construction from an f64, or one comparison of two values in every
\* form the code has.
InitFloat ==
    /\ InitRest
    /\ call \in [op : {"from"}, value : F64Values, at : {"called"}]
            \cup [op : {"compare"}, x : NonNegativeFloats, y : NonNegativeFloats, at : {"called"}]
            \cup [op : {"compare_states"}, x : StockStates, y : StockStates, at : {"called"}]
    /\ rng = NoRng
    /\ log = <<>>
    /\ gens = <<>>
    /\ outs = <<>>

\* NonNegativeFloat::from(value), and f64::from of what it returned.
FromCall ==
    /\ call.op = "from"
    /\ call.at = "called"
    /\ LET res == NonNegativeFloatFrom(call.value)
       IN  call' = [op |-> "from", value |-> call.value,
                    at |-> IF res.ok THEN "returned" ELSE "failed",
                    res |-> res,
                    back |-> IF res.ok THEN Some(F64From(res.val)) ELSE None]
    /\ lastOp' = "from"
    /\ UNCHANGED <<stock, option, history, created, rng, gatherer, pc, sim, log, err, gens, outs>>

\* x.cmp(&y), x == y, x < y and x > y on the same pair.
CompareCall ==
    /\ call.op = "compare"
    /\ call.at = "called"
    /\ call' = [op |-> "compare", x |-> call.x, y |-> call.y, at |-> "returned",
                cmp |-> cmp(call.x, call.y), eq |-> eq(call.x, call.y),
                lt |-> lt(call.x, call.y), gt |-> gt(call.x, call.y)]
    /\ lastOp' = "compare"
    /\ UNCHANGED <<stock, option, history, created, rng, gatherer, pc, sim, log, err, gens, outs>>

\* a.cmp(&b), a < b and a > b on the same pair of StockStates.
StateCompareCall ==
    /\ call.op = "compare_states"
    /\ call.at = "called"
    /\ call' = [op |-> "compare_states", x |-> call.x, y |-> call.y, at |-> "returned",
                cmp |-> StockStateCmp(call.x, call.y),
                lt |-> StockStateLt(call.x, call.y), gt |-> StockStateGt(call.x, call.y)]
    /\ lastOp' = "compare_states"
    /\ UNCHANGED <<stock, option, history, created, rng, gatherer, pc, sim, log, err, gens, outs>>

NextFloat == FromCall \/ CompareCall \/ StateCompareCall

SpecFloat == InitFloat /\ [][NextFloat]_vars

\* ------------------------------------------- the Black-Scholes formulas
\* Fixed-point stand-ins for the f64 functions the formulas use.  Spot,
\* strike and the results are fixed-point values; rates, volatilities and
\* times are whole numbers.  Division rounds towards zero.
Div(a, b) == IF b > 0 THEN (IF a >= 0 THEN a \div b ELSE -((-a) \div b))
             ELSE (IF a >= 0 THEN -(a \div (-b)) ELSE (-a) \div (-b))

RECURSIVE Log2Floor(_)
Log2Floor(n) == IF n <= 1 THEN 0 ELSE 1 + Log2Floor(n \div 2)

\* (spot / strike).ln(), to base 2, for a positive ratio.
LnRatio(spot, strike) ==
    LET a == IF spot < 0 THEN -spot ELSE spot
        b == IF strike < 0 THEN -strike ELSE strike
    IN  IF a >= b THEN Unit * Log2Floor(a \div b) ELSE -(Unit * Log2Floor(b \div a))

\* utils::cumulative_normal_function: n from |x|, returned for x > 0 and
\* 1 - n otherwise.
cumulative_normal_function(x) ==
    LET x2 == IF x < 0 THEN -x ELSE x
        n == Unit - ((Unit \div 2) \div (1 + x2 \div Unit))
    IN  IF x > 0 THEN n ELSE Unit - n

\* utils::normal_probability_density_function
normal_probability_density_function(x) ==
    (2 * Exp(-((Mul(x, x) \div 2) \div Unit))) \div 5

\* The check most functions of raw_formulas start with.
OneParameterNegative(spot, strike, time_to_expiry, volatility, divident_rate) ==
    spot < 0 \/ strike < 0 \/ time_to_expiry < 0 \/ volatility < 0 \/ divident_rate < 0

\* d1 and d2 of the formulas.
D1(spot, strike, r, t, volatility, divident_rate) ==
    Div(LnRatio(spot, strike) + Unit * (r - divident_rate) * t + Div(Unit * volatility * volatility * t, 2),
        Sqrt(t) * volatility)
D2(spot, strike, r, t, volatility, divident_rate) ==
    Div(LnRatio(spot, strike) + Unit * (r - divident_rate) * t - Div(Unit * volatility * volatility * t, 2),
        Sqrt(t) * volatility)

\* (spot / strike).ln() of a negative ratio and sqrt() of a negative time are
\* NaN, and so is everything computed from them.
D1IsNaN(spot, strike, t) == (spot < 0) # (strike < 0) \/ t < 0

\* The functions of raw_formulas, named raw_<function>: Ok(value) or the panic.
\* raw_formulas::european_call_option_price
raw_european_call_option_price(spot, strike, short_rate_of_interest, time_to_expiry, volatility, divident_rate) ==
    IF OneParameterNegative(spot, strike, time_to_expiry, volatility, divident_rate)
    THEN Panic("One of the parameters is negative")
    ELSE IF time_to_expiry = 0
         THEN Ok(Float(IF spot > strike THEN spot - strike ELSE 0))
         ELSE Ok(Float(Mul(Mul(spot, cumulative_normal_function(D1(spot, strike, short_rate_of_interest, time_to_expiry, volatility, divident_rate))), Exp(-time_to_expiry * divident_rate))
                       - Mul(Mul(strike, cumulative_normal_function(D2(spot, strike, short_rate_of_interest, time_to_expiry, volatility, divident_rate))),
                             Exp(-short_rate_of_interest * time_to_expiry))))

\* raw_formulas::european_put_option_price
raw_european_put_option_price(spot, strike, short_rate_of_interest, time_to_expiry, volatility, divident_rate) ==
    IF OneParameterNegative(spot, strike, time_to_expiry, volatility, divident_rate)
    THEN Panic("One of the parameters is negative")
    ELSE IF time_to_expiry = 0
         THEN Ok(Float(IF spot < strike THEN strike - spot ELSE 0))
         ELSE Ok(Float(Mul(Mul(strike, cumulative_normal_function(-D2(spot, strike, short_rate_of_interest, time_to_expiry, volatility, divident_rate))),
                           Exp(-short_rate_of_interest * time_to_expiry))
                       - Mul(Mul(spot, cumulative_normal_function(-D1(spot, strike, short_rate_of_interest, time_to_expiry, volatility, divident_rate))),
                             Exp(-time_to_expiry * divident_rate))))

\* raw_formulas::forward_price
raw_forward_price(spot, short_rate_of_interest, time, divident_rate) ==
    IF spot < 0 \/ time < 0 \/ divident_rate < 0
    THEN Panic("One of the parameters is negative")
    ELSE Ok(Float(Mul(spot, Exp((short_rate_of_interest - divident_rate) * time))))

\* raw_formulas::digital_call_price
raw_digital_call_price(spot, strike, short_rate_of_interest, time_to_expiry, volatility, divident_rate) ==
    IF OneParameterNegative(spot, strike, time_to_expiry, volatility, divident_rate)
    THEN Panic("One of the parameters is negative")
    ELSE Ok(Float(Mul(Exp(-short_rate_of_interest * time_to_expiry), cumulative_normal_function(D2(spot, strike, short_rate_of_interest, time_to_expiry, volatility, divident_rate)))))

\* raw_formulas::digital_put_price
raw_digital_put_price(spot, strike, short_rate_of_interest, time_to_expiry, volatility, divident_rate) ==
    IF OneParameterNegative(spot, strike, time_to_expiry, volatility, divident_rate)
    THEN Panic("One of the parameters is negative")
    ELSE Ok(Float(Mul(Exp(-short_rate_of_interest * time_to_expiry), cumulative_normal_function(-D2(spot, strike, short_rate_of_interest, time_to_expiry, volatility, divident_rate)))))

\* raw_formulas::zero_coupon_bond
raw_zero_coupon_bond(short_rate_of_interest, time_to_maturity) ==
    IF time_to_maturity < 0 THEN Panic("One of the parameters is negative")
    ELSE Ok(Float(Exp(-short_rate_of_interest * time_to_maturity)))

\* raw_formulas::call_delta
raw_call_delta(spot, strike, short_rate_of_interest, time_to_expiry, volatility, divident_rate) ==
    IF OneParameterNegative(spot, strike, time_to_expiry, volatility, divident_rate)
    THEN Panic("One of the parameters is negative")
    ELSE Ok(Float(Mul(cumulative_normal_function(D1(spot, strike, short_rate_of_interest, time_to_expiry, volatility, divident_rate)), Exp(-divident_rate * time_to_expiry))))

\* raw_formulas::call_gamma
raw_call_gamma(spot, strike, short_rate_of_interest, time_to_expiry, volatility, divident_rate) ==
    IF OneParameterNegative(spot, strike, time_to_expiry, volatility, divident_rate)
    THEN Panic("One of the parameters is negative")
    ELSE Ok(Float(Div(Unit * Mul(normal_probability_density_function(D1(spot, strike, short_rate_of_interest, time_to_expiry, volatility, divident_rate)),
                                   Exp(-divident_rate * time_to_expiry)),
                        volatility * spot * Sqrt(time_to_expiry))))

\* raw_formulas::call_vega
raw_call_vega(spot, strike, short_rate_of_interest, time_to_expiry, volatility, divident_rate) ==
    IF OneParameterNegative(spot, strike, time_to_expiry, volatility, divident_rate)
    THEN Panic("One of the parameters is negative")
    ELSE Ok(Float(Mul(Mul(normal_probability_density_function(D1(spot, strike, short_rate_of_interest, time_to_expiry, volatility, divident_rate)), spot) * Sqrt(time_to_expiry),
                      Exp(-divident_rate * time_to_expiry))))

\* raw_formulas::call_theta
raw_call_theta(spot, strike, short_rate_of_interest, time_to_expiry, volatility, divident_rate) ==
    IF OneParameterNegative(spot, strike, time_to_expiry, volatility, divident_rate)
    THEN Panic("One of the parameters is negative")
    ELSE LET t1 == Div(Mul(spot, normal_probability_density_function(D1(spot, strike, short_rate_of_interest, time_to_expiry, volatility, divident_rate))) * volatility,
                       2 * Sqrt(time_to_expiry))
             t2 == divident_rate * Mul(spot, cumulative_normal_function(D1(spot, strike, short_rate_of_interest, time_to_expiry, volatility, divident_rate)))
             t3 == short_rate_of_interest
                   * Mul(Mul(strike, cumulative_normal_function(D2(spot, strike, short_rate_of_interest, time_to_expiry, volatility, divident_rate))),
                         Exp(-short_rate_of_interest * time_to_expiry))
         IN  Ok(Float(Mul(t2 - t1, Exp(-divident_rate * time_to_expiry)) - t3))

\* raw_formulas::call_rho: no check of the parameters
raw_call_rho(spot, strike, short_rate_of_interest, time_to_expiry, volatility, divident_rate) ==
    IF D1IsNaN(spot, strike, time_to_expiry) THEN Ok(NaN)
    ELSE Ok(Float(Mul(Mul(strike * time_to_expiry, cumulative_normal_function(D2(spot, strike, short_rate_of_interest, time_to_expiry, volatility, divident_rate))),
                      Exp(-short_rate_of_interest * time_to_expiry))))

\* raw_formulas::put_delta
raw_put_delta(spot, strike, short_rate_of_interest, time_to_expiry, volatility, divident_rate) ==
    IF OneParameterNegative(spot, strike, time_to_expiry, volatility, divident_rate)
    THEN Panic("One of the parameters is negative")
    ELSE Ok(Float(Mul(cumulative_normal_function(D1(spot, strike, short_rate_of_interest, time_to_expiry, volatility, divident_rate)) - Unit, Exp(-divident_rate * time_to_expiry))))

\* raw_formulas::put_gamma and put_vega call the call's functions.
raw_put_gamma(spot, strike, short_rate_of_interest, time_to_expiry, volatility, divident_rate) ==
    raw_call_gamma(spot, strike, short_rate_of_interest, time_to_expiry, volatility, divident_rate)
raw_put_vega(spot, strike, short_rate_of_interest, time_to_expiry, volatility, divident_rate) ==
    raw_call_vega(spot, strike, short_rate_of_interest, time_to_expiry, volatility, divident_rate)

\* raw_formulas::put_theta
raw_put_theta(spot, strike, short_rate_of_interest, time_to_expiry, volatility, divident_rate) ==
    IF OneParameterNegative(spot, strike, time_to_expiry, volatility, divident_rate)
    THEN Panic("One of the parameters is negative")
    ELSE LET t1 == Div(Mul(spot, normal_probability_density_function(D1(spot, strike, short_rate_of_interest, time_to_expiry, volatility, divident_rate))) * volatility,
                       2 * Sqrt(time_to_expiry))
             t2 == divident_rate * Mul(spot, cumulative_normal_function(-D1(spot, strike, short_rate_of_interest, time_to_expiry, volatility, divident_rate)))
             t3 == short_rate_of_interest
                   * Mul(Mul(strike, cumulative_normal_function(-D2(spot, strike, short_rate_of_interest, time_to_expiry, volatility, divident_rate))),
                         Exp(-short_rate_of_interest * time_to_expiry))
         IN  Ok(Float(Mul(-t2 - t1, Exp(-divident_rate * time_to_expiry)) + t3))

\* raw_formulas::put_rho: no check of the parameters
raw_put_rho(spot, strike, short_rate_of_interest, time_to_expiry, volatility, divident_rate) ==
    IF D1IsNaN(spot, strike, time_to_expiry) THEN Ok(NaN)
    ELSE Ok(Float(-Mul(Mul(strike * time_to_expiry, cumulative_normal_function(-D2(spot, strike, short_rate_of_interest, time_to_expiry, volatility, divident_rate))),
                       Exp(-short_rate_of_interest * time_to_expiry))))

\* The functions of raw_formulas (and of formulas), by name.
FormulaNames ==
    {"european_call_option_price",
     "european_put_option_price",
     "forward_price",
     "digital_call_price",
     "digital_put_price",
     "zero_coupon_bond",
     "call_delta",
     "call_gamma",
     "call_vega",
     "call_theta",
     "call_rho",
     "put_delta",
     "put_gamma",
     "put_vega",
     "put_theta",
     "put_rho"}

\* raw_formulas::<f> on the arguments of p; forward_price and zero_coupon_bond
\* take the arguments they have.
RawFormula(f, p) ==
    IF f = "european_call_option_price" THEN raw_european_call_option_price(p.spot, p.strike, p.r, p.t, p.volatility, p.divident_rate)
    ELSE IF f = "european_put_option_price" THEN raw_european_put_option_price(p.spot, p.strike, p.r, p.t, p.volatility, p.divident_rate)
    ELSE IF f = "forward_price" THEN raw_forward_price(p.spot, p.r, p.t, p.divident_rate)
    ELSE IF f = "digital_call_price" THEN raw_digital_call_price(p.spot, p.strike, p.r, p.t, p.volatility, p.divident_rate)
    ELSE IF f = "digital_put_price" THEN raw_digital_put_price(p.spot, p.strike, p.r, p.t, p.volatility, p.divident_rate)
    ELSE IF f = "zero_coupon_bond" THEN raw_zero_coupon_bond(p.r, p.t)
    ELSE IF f = "call_delta" THEN raw_call_delta(p.spot, p.strike, p.r, p.t, p.volatility, p.divident_rate)
    ELSE IF f = "call_gamma" THEN raw_call_gamma(p.spot, p.strike, p.r, p.t, p.volatility, p.divident_rate)
    ELSE IF f = "call_vega" THEN raw_call_vega(p.spot, p.strike, p.r, p.t, p.volatility, p.divident_rate)
    ELSE IF f = "call_theta" THEN raw_call_theta(p.spot, p.strike, p.r, p.t, p.volatility, p.divident_rate)
    ELSE IF f = "call_rho" THEN raw_call_rho(p.spot, p.strike, p.r, p.t, p.volatility, p.divident_rate)
    ELSE IF f = "put_delta" THEN raw_put_delta(p.spot, p.strike, p.r, p.t, p.volatility, p.divident_rate)
    ELSE IF f = "put_gamma" THEN raw_put_gamma(p.spot, p.strike, p.r, p.t, p.volatility, p.divident_rate)
    ELSE IF f = "put_vega" THEN raw_put_vega(p.spot, p.strike, p.r, p.t, p.volatility, p.divident_rate)
    ELSE IF f = "put_theta" THEN raw_put_theta(p.spot, p.strike, p.r, p.t, p.volatility, p.divident_rate)
    ELSE raw_put_rho(p.spot, p.strike, p.r, p.t, p.volatility, p.divident_rate)

\* The parameters of f other than the short rate of interest.
CheckedParameters(f, p) ==
    IF f = "forward_price" THEN {p.spot, p.t, p.divident_rate}
    ELSE IF f = "zero_coupon_bond" THEN {p.t}
    ELSE {p.spot, p.strike, p.t, p.volatility, p.divident_rate}

\* The Stock of formulas.rs: get_price, get_volatility and get_divident_rate
\* return NonNegativeFloats.
FormulaStocks ==
    [price : {NonNegativeFloat(Float(Unit)), NonNegativeFloat(Float(2 * Unit))},
     volatility : {NonNegativeFloat(Float(1)), NonNegativeFloat(Float(2))},
     divident_rate : {NonNegativeFloat(Float(0)), NonNegativeFloat(Float(1))}]

\* The f64 arguments a function of formulas hands to raw_formulas.
RawArguments(stock_, strike, r, time_to_expiry) ==
    [spot |-> F64From(stock_.price).val, strike |-> F64From(strike).val, r |-> r,
     t |-> F64From(time_to_expiry).val, volatility |-> F64From(stock_.volatility).val,
     divident_rate |-> F64From(stock_.divident_rate).val]

\* formulas::<f>: the value of raw_formulas::<f>, through NonNegativeFloat::from.
Formula(f, stock_, strike, r, time_to_expiry) ==
    LET ret == RawFormula(f, RawArguments(stock_, strike, r, time_to_expiry))
    IN  IF ~ret.ok THEN ret ELSE NonNegativeFloatFrom(ret.val)

\* The calls made: a function of raw_formulas on f64s of either sign (no
\* zero spot, strike, time or volatility: the formulas divide by them), or a
\* function of formulas on a Stock and NonNegativeFloats.
RawCalls ==
    [op : {"raw"}, f : FormulaNames,
     p : [spot : {-Unit, Unit, 2 * Unit}, strike : {-Unit, Unit, 2 * Unit}, r : Rates,
          t : {-1, 1, 2}, volatility : {-1, 1, 2}, divident_rate : {-1, 0, 1}],
     at : {"called"}]

FormulaCalls ==
    [op : {"formula"}, f : FormulaNames, stock : FormulaStocks,
     strike : {NonNegativeFloat(Float(Unit)), NonNegativeFloat(Float(2 * Unit))},
     r : Rates,
     time_to_expiry : {NonNegativeFloat(Float(1)), NonNegativeFloat(Float(2))},
     at : {"called"}]

InitFormulas ==
    /\ InitRest
    /\ call \in RawCalls \cup FormulaCalls
    /\ rng = NoRng
    /\ log = <<>>
    /\ gens = <<>>
    /\ outs = <<>>

RawFormulaCall ==
    /\ call.op = "raw"
    /\ call.at = "called"
    /\ LET res == RawFormula(call.f, call.p)
       IN  call' = [op |-> "raw", f |-> call.f, p |-> call.p,
                    at |-> IF res.ok THEN "returned" ELSE "failed", res |-> res]
    /\ lastOp' = "raw_formula"
    /\ UNCHANGED <<stock, option, history, created, rng, gatherer, pc, sim, log, err, gens, outs>>

FormulaCall ==
    /\ call.op = "formula"
    /\ call.at = "called"
    /\ LET res == Formula(call.f, call.stock, call.strike, call.r, call.time_to_expiry)
       IN  call' = [op |-> "formula", f |-> call.f, stock |-> call.stock, strike |-> call.strike,
                    r |-> call.r, time_to_expiry |-> call.time_to_expiry,
                    at |-> IF res.ok THEN "returned" ELSE "failed", res |-> res]
    /\ lastOp' = "formula"
    /\ UNCHANGED <<stock, option, history, created, rng, gatherer, pc, sim, log, err, gens, outs>>

NextFormulas == RawFormulaCall \/ FormulaCall

SpecFormulas == InitFormulas /\ [][NextFormulas]_vars

\* ---------------------------------------------- the gatherer on its own
\* The results dumped into the gatherer.
ResultValues == {-3, 0, 2, 7}

\* A fresh gatherer; log keeps the results dumped so far.
InitGatherer ==
    /\ InitRest
    /\ rng = NoRng
    /\ log = <<>>
    /\ gens = <<>>
    /\ outs = <<>>
    /\ call = NoCall

GathererDump ==
    /\ Len(log) < MaxCalls
    /\ \E result \in ResultValues :
        /\ gatherer' = dump_one_result(gatherer, result)
        /\ log' = Append(log, result)
    /\ lastOp' = "dump_one_result"
    /\ UNCHANGED <<stock, option, history, created, rng, pc, sim, err, gens, outs, call>>

\* get_results_so_far takes &self.
GathererResults ==
    /\ call' = [op |-> "get_results_so_far", at |-> "returned",
                res |-> get_results_so_far(gatherer)]
    /\ lastOp' = "get_results_so_far"
    /\ UNCHANGED <<stock, option, history, created, rng, gatherer, pc, sim, log, err, gens, outs>>

NextGatherer == GathererDump \/ GathererResults

SpecGatherer == InitGatherer /\ [][NextGatherer]_vars

\* ================================================================ claims
\* The time stamps of a sequence of states are strictly increasing.
StrictlyIncreasing(states) ==
    \A i \in 1..(Len(states) - 1) : states[i].time < states[i + 1].time

\* The samples of all calls of a log, in the order drawn.
RECURSIVE Flatten(_)
Flatten(l) == IF Len(l) = 0 THEN <<>> ELSE l[1].samples \o Flatten(Tail(l))

\* C1: monte_carlo_simulation on an option whose get_time_to_expiry() is None
\* fails with "The option expiered!" before any sample is drawn from the
\* sampler and before any result is recorded in the gatherer.
C1_ExpiredFailsBeforeSampling ==
    (pc # "idle" /\ ~get_time_to_expiry(option, stock).some) =>
        /\ pc = "failed"
        /\ err = "The option expiered!"
        /\ rng.pos = 0
        /\ gatherer = MeanStatisticsGatherer_new
        /\ log = <<>>

C1_Witness ==
    /\ pc = "failed"
    /\ err = "The option expiered!"
    /\ lastOp = "mc_start"
    /\ sim.number_of_paths > 0
    /\ option.expiry < stock.current_time

\* C2: for an unexpired option and any number_of_paths N the simulation never
\* fails, runs exactly N trials and records exactly N results, the i-th being
\* discount_factor * price_path(batch_i, r) with batch_i of size
\* get_dimensionality() and discount_factor = exp(-r * tau) fixed at entry.
C2_RunsAllTrials ==
    (pc # "idle" /\ get_time_to_expiry(option, stock).some) =>
        /\ pc # "failed"
        /\ sim.discount_factor = Exp(-sim.r * (option.expiry - stock.current_time))
        /\ Len(log) = sim.i
        /\ gatherer.paths_done = sim.i
        /\ sim.i <= sim.number_of_paths
        /\ (pc = "done" => sim.i = sim.number_of_paths)
        /\ \A k \in 1..Len(log) :
            /\ Len(log[k].samples) = get_dimensionality(option, stock)
            /\ LET res == price_path(option, stock, history, log[k].samples, sim.r)
               IN  res.ok /\ log[k].result = Mul(sim.discount_factor, res.val)

C5_SeededOutputDeterministic ==
    /\ \A k \in 1..Len(gens) :
        /\ outs[k].nu >= 1 => Len(outs[k].u) = gens[k].dimensionality
        /\ outs[k].ng >= 1 => Len(outs[k].g) = gens[k].dimensionality
        /\ gens[k].seed.some =>
            /\ outs[k].nu = 2 => outs[k].u = outs[k].pu
            /\ outs[k].ng = 2 => outs[k].g = outs[k].pg
    /\ (Len(gens) = 2 /\ gens[1].seed.some /\ gens[1] = gens[2]) =>
        /\ (outs[1].nu >= 1 /\ outs[2].nu >= 1) => outs[1].u = outs[2].u
        /\ (outs[1].ng >= 1 /\ outs[2].ng >= 1) => outs[1].g = outs[2].g

C5_Witness ==
    /\ gens[1].seed.some
    /\ gens[1] = gens[2]
    /\ gens[1].dimensionality >= 2
    /\ outs[1].ng = 2
    /\ outs[2].ng >= 1
    /\ outs[1].nu = 2
    /\ outs[2].nu >= 1

\* C6: no step but AsianOption::update changes the option's history; a
\* price_path call, direct or inside a trial, leaves it element for element
\* as it was.
C6_PricePathKeepsHistory ==
    [][history' # history => lastOp' = "update"]_vars

C6_Witness ==
    /\ option.kind = "asian"
    /\ lastOp = "price_path"
    /\ err = ""
    /\ stock.current_time # history[Len(history)].time

\* C7: AsianOption::update appends the underlying's current state exactly
\* when its time stamp differs from the last recorded one and changes nothing
\* otherwise; a second update right after it changes nothing.
C7_UpdateAppendsOnNewTime ==
    [][lastOp' = "update" =>
        /\ history' = IF get_current_state(stock).time # history[Len(history)].time
                      THEN Append(history, get_current_state(stock))
                      ELSE history
        /\ AsianUpdate(history', stock') = history']_vars

C7_Witness ==
    /\ lastOp = "update"
    /\ Len(history) >= 2
    /\ history[Len(history)] = get_current_state(stock)

\* C8: the history of an AsianOption is never empty, starts with the
\* underlying's state at construction and has strictly increasing time stamps.
C8_HistoryInvariant ==
    option.kind = "asian" =>
        /\ Len(history) >= 1
        /\ history[1] = created
        /\ StrictlyIncreasing(history)

C8_Witness ==
    /\ option.kind = "asian"
    /\ Len(history) >= 3
    /\ lastOp = "price_path"

\* C9: AsianOption::get_dimensionality returns the number of monitoring times
\* strictly after the underlying's current time.
C9_DimensionalityStrictlyAfter ==
    option.kind = "asian" =>
        AsianDimensionality(option, stock) =
            Cardinality({i \in 1..Len(option.monitoring_times) :
                            option.monitoring_times[i] > stock.current_time})

\* C10: get_time_to_expiry of either option type returns expiry minus the
\* underlying's current time when that is >= 0 (also when it is 0) and None
\* exactly when it is negative; the simulation runs on that value.
C10_TimeToExpiry ==
    LET x == option.expiry - stock.current_time
        tte == get_time_to_expiry(option, stock)
    IN  /\ x >= 0 => (tte.some /\ tte.val = x)
        /\ ~tte.some <=> x < 0
        /\ pc = "running" => sim.tau = Some(x)

C10_Witness ==
    /\ option.kind = "vanilla"
    /\ option.expiry = stock.current_time
    /\ stock.current_time > 0
    /\ pc = "running"
    /\ sim.tau = Some(0)

\* A call of a time stamp generator with the input its documentation asks for:
\* at least one time stamp, a gaussian for each, the first not before the
\* stock's current time, strictly increasing.
ValidTimeStamps(s, gaussians, time_stamps) ==
    /\ Len(time_stamps) > 0
    /\ Len(gaussians) >= Len(time_stamps)
    /\ time_stamps[1] >= s.current_time
    /\ \A i \in 1..(Len(time_stamps) - 1) : time_stamps[i] < time_stamps[i + 1]

\* The time stamps of a path, in order.
TimesOf(states) == [i \in 1..Len(states) |-> states[i].time]

\* C11: a VanillaStockOption has dimensionality 1 whatever the state of the
\* underlying; price_path fails when the expiry is before the underlying's
\* current time or when no sample is supplied, and otherwise returns the payoff
\* of the value the underlying reaches at expiry in one risk neutral step
\* driven by the first sample.
C11_VanillaPricePath ==
    (call.op = "price_path" /\ call.at # "called") =>
        /\ get_dimensionality(option, stock) = 1
        /\ (option.expiry < stock.current_time \/ Len(call.random_samples) = 0)
               => (call.at = "failed" /\ ~call.res.ok)
        /\ (option.expiry >= stock.current_time /\ Len(call.random_samples) >= 1)
               => /\ call.at = "returned"
                  /\ call.res.ok
                  /\ call.res.val =
                       payoff_function(option,
                           Float(evolve([stock EXCEPT !.drift = call.r], call.random_samples[1],
                                        option.expiry - stock.current_time).price))

C11_Witness ==
    /\ call.op = "price_path"
    /\ call.at = "returned"
    /\ Len(call.random_samples) >= 2
    /\ call.random_samples[1] # call.random_samples[2]
    /\ option.expiry > stock.current_time
    /\ stock.volatility > 0
    /\ call.r # stock.drift
    /\ call.res.val > 0

\* C12: for valid input both time stamp generators return exactly one state
\* per requested time stamp, in the same order, the i-th state carrying the
\* i-th time stamp, and the call leaves the underlying as it was.
C12_OneStatePerTimeStamp ==
    [][(/\ call.op = "time_stamps"
        /\ call.at = "called"
        /\ call'.at # "called"
        /\ ValidTimeStamps(stock, call.gaussians, call.time_stamps))
       => /\ call'.at = "returned"
          /\ call'.res.ok
          /\ TimesOf(call'.res.val) = call.time_stamps
          /\ stock' = stock]_vars

C12_Witness ==
    /\ call.op = "time_stamps"
    /\ call.at = "returned"
    /\ ValidTimeStamps(stock, call.gaussians, call.time_stamps)
    /\ Len(call.time_stamps) = 2
    /\ call.time_stamps[1] > stock.current_time
    /\ Len(call.res.val) = 2

\* C13: both time stamp generators fail and return no path when the time
\* stamp vector is empty, when there are fewer gaussians than time stamps, or
\* when the first time stamp is before the underlying's current time.
C13_InvalidInputFails ==
    (/\ call.op = "time_stamps"
     /\ call.at # "called"
     /\ \/ Len(call.time_stamps) = 0
        \/ Len(call.gaussians) < Len(call.time_stamps)
        \/ call.time_stamps[1] < stock.current_time)
    => (call.at = "failed" /\ ~call.res.ok)

C13_Witness ==
    /\ call.op = "time_stamps"
    /\ call.at = "failed"
    /\ Len(call.time_stamps) = 2
    /\ Len(call.gaussians) >= 2
    /\ call.time_stamps[1] < stock.current_time
    /\ call.time_stamps[1] < call.time_stamps[2]

\* C14: both time stamp generators fail whenever the time stamp vector is not
\* strictly increasing, two equal consecutive time stamps included.
C14_NotStrictlyIncreasingFails ==
    (/\ call.op = "time_stamps"
     /\ call.at # "called"
     /\ \E i \in 1..(Len(call.time_stamps) - 1) : call.time_stamps[i] >= call.time_stamps[i + 1])
    => (call.at = "failed" /\ ~call.res.ok)

\* The time stamps begin, begin + step, ... strictly smaller than end, followed
\* by end when inclusive (step > 0).
StepStamps(begin, step, end, inclusive) ==
    LET n == IF end > begin THEN (end - begin + step - 1) \div step ELSE 0
    IN  [k \in 1..n |-> begin + (k - 1) * step] \o (IF inclusive THEN <<end>> ELSE <<>>)

\* C15: for begin >= current time, end > begin and step > 0 the step
\* generators return states at begin, begin + step, ... for every such value
\* strictly smaller than end, then one more at end exactly when inclusive: the
\* first state is at begin, the last at end if inclusive and before end
\* otherwise.  (A gaussian per state is needed for the call to return.)
C15_StepStamps ==
    (/\ call.op = "steps"
     /\ call.at \in {"returned", "failed"}
     /\ call.begin >= stock.current_time
     /\ call.end > call.begin
     /\ call.step > 0)
    => LET expected == StepStamps(call.begin, call.step, call.end, call.inclusive)
       IN  /\ (call.at = "returned") <=> (Len(call.gaussians) >= Len(expected))
           /\ call.at = "returned" =>
                LET times == TimesOf(call.res.val)
                IN  /\ times = expected
                    /\ times[1] = call.begin
                    /\ IF call.inclusive THEN times[Len(times)] = call.end
                       ELSE times[Len(times)] < call.end

C15_Witness ==
    /\ call.op = "steps"
    /\ call.at = "returned"
    /\ call.begin >= stock.current_time
    /\ call.step > 0
    /\ call.inclusive
    /\ Len(call.res.val) = 3
    /\ call.res.val[3].time = call.end

\* C16: the step generators fail whenever begin is before the underlying's
\* current time or end <= begin, whatever inclusive is.
C16_BadRangeFails ==
    (/\ call.op = "steps"
     /\ call.at # "called"
     /\ (call.begin < stock.current_time \/ call.end <= call.begin))
    => call.at \in {"loop", "failed"}

\* C17: a step generator called with step = 0 (and begin < end) ends by
\* signalling an error: it neither runs forever nor returns a path.
C17_ZeroStepFails ==
    (call.op = "steps" /\ call.at = "called" /\ call.step = 0 /\ call.begin < call.end)
        ~> (call.at = "failed")

\* C18: for a stock with volatility 0 and drift 0, evolve(z, dt) leaves the
\* price unchanged and sets current_time to current_time + dt, for every
\* gaussian sample, every dt >= 0 and every dividend rate.
C18_FlatStockKeepsPrice ==
    [][(/\ call.op = "evolve"
        /\ call.at = "called"
        /\ call'.at = "returned"
        /\ stock.volatility = 0
        /\ stock.drift = 0)
       => /\ stock'.price = stock.price
          /\ stock'.current_time = stock.current_time + call.time_step]_vars

\* C18, amended: for a stock with volatility 0, drift 0 and dividend rate 0,
\* evolve(z, dt) leaves the price unchanged and sets current_time to
\* current_time + dt, for every finite gaussian sample and every finite
\* dt >= 0.
C18_FlatStockKeepsPriceNoDividend ==
    [][(/\ call.op = "evolve"
        /\ call.at = "called"
        /\ call'.at = "returned"
        /\ stock.volatility = 0
        /\ stock.drift = 0
        /\ stock.divident_rate = 0)
       => /\ stock'.price = stock.price
          /\ stock'.current_time = stock.current_time + call.time_step]_vars

C18_Witness ==
    /\ call.op = "evolve"
    /\ call.at = "returned"
    /\ stock.volatility = 0
    /\ stock.drift = 0
    /\ stock.divident_rate = 0
    /\ call.time_step > 0
    /\ call.gaussian_sample # 0
    /\ stock.current_time = created.time + call.time_step
    /\ stock.price = created.value

\* C19: NonNegativeFloat::from (TimeStamp::from) fails on a negative value and
\* on NaN; on every value >= 0 it succeeds and the stored value converts back
\* to the same f64.
C19_FromRejectsNegativeAndNaN ==
    (call.op = "from" /\ call.at # "called") =>
        IF call.value.nan \/ call.value.val < 0
        THEN call.at = "failed" /\ ~call.res.ok
        ELSE call.at = "returned" /\ call.res.ok /\ call.back = Some(call.value)

\* C20: the ordering of NonNegativeFloat / TimeStamp is tolerant: two values
\* that differ by less than the tolerance compare equal under cmp and under
\* ==, < and >, so that all the comparison forms agree on every pair.
C20_ComparisonFormsAgree ==
    (call.op = "compare" /\ call.at = "returned") =>
        /\ (/\ ~call.x.inner.nan
            /\ ~call.y.inner.nan
            /\ call.x.inner.val - call.y.inner.val < Epsilon
            /\ call.y.inner.val - call.x.inner.val < Epsilon)
           => /\ call.cmp = Ok("Equal")
              /\ call.eq = Ok(TRUE)
              /\ call.lt = Ok(FALSE)
              /\ call.gt = Ok(FALSE)
        /\ call.eq = Ok(TRUE) <=> call.cmp = Ok("Equal")
        /\ call.lt = Ok(TRUE) <=> call.cmp = Ok("Less")
        /\ call.gt = Ok(TRUE) <=> call.cmp = Ok("Greater")

\* C21: StockStates are ordered by time only: what cmp, < and > return for two
\* states is what they return for the two time stamps, whatever the values.
C21_StockStateOrderedByTime ==
    (call.op = "compare_states" /\ call.at = "returned") =>
        /\ call.cmp = cmp(call.x.time, call.y.time)
        /\ call.lt = lt(call.x.time, call.y.time)
        /\ call.gt = gt(call.x.time, call.y.time)

\* The sum of a sequence of results.
RECURSIVE SumSeq(_)
SumSeq(sq) == IF Len(sq) = 0 THEN 0 ELSE sq[1] + SumSeq(Tail(sq))

\* C22: after k >= 1 calls dump_one_result(x1..xk) on a fresh gatherer,
\* get_results_so_far returns the single value (x1 + ... + xk) / k and the
\* running count is k; with k = 0 it returns NaN without failing; the call
\* leaves the gatherer as it was.
C22_MeanOfResults ==
    [][lastOp' = "get_results_so_far"
       => /\ gatherer' = gatherer
          /\ gatherer.paths_done = Len(log)
          /\ Len(call'.res) = 1
          /\ Len(call'.res[1]) = 1
          /\ call'.res[1][1] = IF Len(log) = 0 THEN NaN
                               ELSE Float(SumSeq(log) \div Len(log))]_vars

C22_Witness ==
    /\ lastOp = "get_results_so_far"
    /\ Len(log) = 3
    /\ log[1] # log[2]
    /\ log[2] # log[3]
    /\ gatherer.paths_done = 3
    /\ call.res = <<<<Float(3)>>>>

\* C23: every function of raw_formulas panics when one of its parameters other
\* than the short rate of interest is negative: the price functions and every
\* greek, call_rho, put_rho, put_gamma and put_vega included.
C23_RawFormulasRejectNegative ==
    (/\ call.op = "raw"
     /\ call.at # "called"
     /\ \E v \in CheckedParameters(call.f, call.p) : v < 0)
    => (call.at = "failed" /\ ~call.res.ok)

\* C29: for valid input each function of formulas returns the value of its
\* raw_formulas counterpart: it does not fail where the raw function returns
\* a value, negative greeks (put_delta, put_rho, call_theta) included.
C29_WrappersEqualRaw ==
    (call.op = "formula" /\ call.at # "called") =>
        LET raw == RawFormula(call.f, RawArguments(call.stock, call.strike, call.r,
                                                   call.time_to_expiry))
        IN  raw.ok => (/\ call.at = "returned"
                       /\ call.res.ok
                       /\ F64From(call.res.val) = raw.val)

\* C25: the real world generators and the risk neutral ones differ only in the
\* drift.  A finished call of generate_risk_neutral_path_from_time_stamps with
\* r equal to the stock's drift has the result (path or failure) that
\* generate_path_from_time_stamps has on the same stock, gaussians and time
\* stamps, and the other way round; so has a finished call of one step
\* generator, compared with the other step generator.
OtherKind(kind) == IF kind = "real" THEN "risk_neutral" ELSE "real"

C25_GeneratorsDifferOnlyInDrift ==
    (/\ call.op \in {"time_stamps", "steps"}
     /\ call.at \in {"returned", "failed"}
     /\ call.kind = "risk_neutral" => call.r = stock.drift)
    => IF call.op = "time_stamps"
       THEN call.res = IF call.kind = "risk_neutral"
                       THEN generate_path_from_time_stamps(stock, call.gaussians, call.time_stamps)
                       ELSE generate_risk_neutral_path_from_time_stamps(
                                stock, call.gaussians, call.time_stamps, stock.drift)
       ELSE call.res = IF StepsInputsInvalid(stock, call.begin, call.end)
                       THEN Panic("Invalid time_stamp inputs")
                       ELSE StepsFinishCall(stock, OtherKind(call.kind), call.gaussians,
                                            stock.drift, call.time_stamps, call.end,
                                            call.inclusive)

\* A risk neutral path over a step of positive length was returned for r equal
\* to a drift that is not 0.
C25_Witness ==
    /\ call.op = "time_stamps" /\ call.kind = "risk_neutral" /\ call.at = "returned"
    /\ call.r = stock.drift /\ stock.drift # 0
    /\ Len(call.res.val) = 2 /\ call.res.val[1].time > stock.current_time

\* C26: a path over several time stamps is what evolving step by step gives.
\* The i-th state of a path returned by generate_path_from_time_stamps has the
\* price and the time of a copy of the stock after evolve(z1, t1 - t0), ...,
\* evolve(zi, ti - t(i-1)), t0 being the stock's current time.
RECURSIVE EvolvedCopy(_, _, _, _)
EvolvedCopy(s, gaussians, time_stamps, i) ==
    IF i = 0 THEN s
    ELSE evolve(EvolvedCopy(s, gaussians, time_stamps, i - 1), gaussians[i],
                time_stamps[i] - (IF i = 1 THEN s.current_time ELSE time_stamps[i - 1]))

C26_PathIsSequentialEvolve ==
    (call.op = "time_stamps" /\ call.kind = "real" /\ call.at = "returned")
    => \A i \in 1..Len(call.res.val) :
           call.res.val[i]
               = get_current_state(EvolvedCopy(stock, call.gaussians, call.time_stamps, i))

\* A path of two states was returned whose price moved in both steps.
C26_Witness ==
    /\ call.op = "time_stamps" /\ call.kind = "real" /\ call.at = "returned"
    /\ Len(call.res.val) = 2
    /\ call.res.val[1].value # stock.price
    /\ call.res.val[2].value # call.res.val[1].value

\* C27: a trial on an Asian option with a strictly increasing schedule and a
\* present time to expiry, priced with a batch of get_dimensionality()
\* samples, never fails inside path generation: neither with "Not enough
\* Gaussian samples." nor with "Invalid time_stamp vector.".
PathGenerationErrors ==
    {"Not enough Gaussian samples.", "Invalid time_stamp vector.", "Invalid time_stamp vector"}

C27_AsianPathGenerationNeverFails ==
    (/\ option.kind = "asian"
     /\ lastOp = "mc_trial"
     /\ get_time_to_expiry(option, stock).some)
    => err \notin PathGenerationErrors

\* C28: the states AsianOption::price_path hands to the average function are
\* strictly increasing in time and cover the monitoring schedule: every
\* monitoring time lies between the first and the last state's time stamp.
\* The call in question got past path generation.
C28_AverageInputCoversSchedule ==
    (/\ option.kind = "asian"
     /\ lastOp \in {"price_path", "mc_trial"}
     /\ err \notin PathGenerationErrors)
    => \A random_samples \in SampleVectors, r \in Rates :
           LET states == AsianAverageStates(option, stock, history, random_samples, r)
           IN  states.ok =>
                   /\ StrictlyIncreasing(states.val)
                   /\ \A k \in 1..Len(option.monitoring_times) :
                          /\ states.val[1].time <= option.monitoring_times[k]
                          /\ option.monitoring_times[k] <= states.val[Len(states.val)].time

\* C30: monte_carlo_simulation and price_path leave the option and its
\* underlying unchanged.  Every step of a simulation (its entry, a trial, its
\* return) and every price_path call keeps the underlying's price and current
\* time and the option's expiry, monitoring times and history, so
\* get_time_to_expiry() and get_dimensionality() return the same values before,
\* during and after a simulation.
C30_PricingLeavesOptionAndStock ==
    [][lastOp' \in {"price_path", "mc_start", "mc_trial", "mc_return"}
       => /\ stock' = stock
          /\ option' = option
          /\ history' = history
          /\ get_time_to_expiry(option, stock)' = get_time_to_expiry(option, stock)
          /\ get_dimensionality(option, stock)' = get_dimensionality(option, stock)]_vars

\* A simulation of two trials on an Asian option returned, run after the
\* underlying had moved on from the state the option's history ends with.
C30_Witness ==
    /\ pc = "done"
    /\ sim.i = 2
    /\ option.kind = "asian"
    /\ history[Len(history)].time < stock.current_time

====
